---- MODULE Spec2Model ----
(***************************************************************************)
(* Slices as views on fixed-size arrays: the slice header (array, start,   *)
(* len, cap) and the operations the article's demos exercise: slicing,     *)
(* bytes.Split, append, copy and element assignment.  Buffers are the      *)
(* underlying arrays; a view is a slice header.  Array identity is the     *)
(* index of the array in heap (what %p prints in the demos).               *)
(***************************************************************************)
EXTENDS Integers, Sequences, FiniteSets, TLC

VARIABLES elem, heap, views, pheap, pviews, last, nops

vars == <<elem, heap, views, pheap, pviews, last, nops>>

(***************************************************************************)
(* Bounds of the exploration.                                              *)
(***************************************************************************)
MaxOps == 3

(***************************************************************************)
(* Inputs: the literals the demos use.                                     *)
(*   "a,b,c" = 97 44 98 44 99   ',' = 44   '*' = 42   'd','e','f' = 100..  *)
(***************************************************************************)
InitConfigs ==
    { [typ |-> "byte", data |-> <<97, 44, 98, 44, 99>>, len |-> 5],
      [typ |-> "int", data |-> <<1, 2, 0, 0>>, len |-> 2],
      [typ |-> "int", data |-> <<1, 2, 3, 4>>, len |-> 4] }

GrowArgs(t) ==
    IF t = "byte" THEN { <<100, 101, 102>> }
    ELSE { <<3, 4>>, <<5>>, <<5, 6, 7, 8>> }

Seps == { <<44>>, <<>>, <<44, 98>> }

SetVals == { 42 }

MakeArgs == { <<4, 8>> }

\* (lo, hi) pairs: negative, inverted, within len, beyond len, beyond cap.
SliceArgs == { <<-1, 1>>, <<2, 1>>, <<1, 3>>, <<2, 4>>, <<0, 6>> }

(***************************************************************************)
(* Helpers.                                                                *)
(***************************************************************************)
Min(a, b) == IF a <= b THEN a ELSE b

Max(a, b) == IF a >= b THEN a ELSE b

Zeros(n) == [k \in 1 .. n |-> 0]

\* A slice header: array, index of the first element, len and cap.
mkView(b, o, l, c) == [buf |-> b, off |-> o, len |-> l, cap |-> c]

\* The elements seen through a view (what %v / %q prints).
Read(h, v) == [k \in 1 .. v.len |-> h[v.buf][v.off + k]]

\* Variant: the index taken from the start of the array, not of the view.
WriteAbsolute(h, v, k, val) == [h EXCEPT ![v.buf][k + 1] = val]

\* v[k] = val, k counted from 0.
Write(h, v, k, val) == [h EXCEPT ![v.buf][v.off + k + 1] = val]

(***************************************************************************)
(* v[lo:hi]: a window on the same array; it may extend up to cap(v).       *)
(***************************************************************************)
\* Variant: the upper bound checked against len(v) instead of cap(v).
sliceOKLen(v, lo, hi) == 0 <= lo /\ lo <= hi /\ hi <= v.len

sliceOK(v, lo, hi) == 0 <= lo /\ lo <= hi /\ hi <= v.cap

\* Variant: the capacity cut down to the new length (v[lo:hi:hi]).
sliceTightCap(v, lo, hi) == mkView(v.buf, v.off + lo, hi - lo, hi - lo)

\* Variant: the capacity of v taken over without subtracting lo.
sliceKeepCap(v, lo, hi) == mkView(v.buf, v.off + lo, hi - lo, v.cap)

slice(v, lo, hi) == mkView(v.buf, v.off + lo, hi - lo, v.cap - lo)

(***************************************************************************)
(* bytes.Split(s, sep): subslices of s between the separators.  The        *)
(* returned slices point into the array of s, and their cap() is set to    *)
(* the end of that array.                                                  *)
(***************************************************************************)
\* sep occurs in s at position m (counted from 0).
matchAt(s, sep, m) ==
    /\ m + Len(sep) <= Len(s)
    /\ \A j \in 1 .. Len(sep) : s[m + j] = sep[j]

\* bytes.Index on s[p:]: the first position >= p where sep occurs, or -1.
indexFrom(s, sep, p) ==
    LET ms == { m \in p .. Len(s) : matchAt(s, sep, m) }
    IN  IF ms = {} THEN -1 ELSE CHOOSE m \in ms : \A m2 \in ms : m <= m2

\* The segments as (off, len) pairs relative to the start of s.
RECURSIVE genSplit(_, _, _)
genSplit(s, sep, p) ==
    LET m == indexFrom(s, sep, p)
    IN  IF m < 0
        THEN << [off |-> p, len |-> Len(s) - p] >>
        ELSE << [off |-> p, len |-> m - p] >> \o genSplit(s, sep, m + Len(sep))

\* Variant: an empty separator gives the whole input as one segment.
explodeWhole(s) == << [off |-> 0, len |-> Len(s)] >>

\* An empty separator splits after each byte (each UTF-8 sequence; the
\* bytes of the model are ASCII).
explode(s) == [k \in 1 .. Len(s) |-> [off |-> k - 1, len |-> 1]]

\* Variant: the separator stays at the end of each segment (SplitAfter).
segmentsKeepSep(s, sep) ==
    LET g == IF sep = << >> THEN explode(s) ELSE genSplit(s, sep, 0)
    IN  [k \in 1 .. Len(g) |->
            [off |-> g[k].off,
             len |-> g[k].len + (IF k < Len(g) THEN Len(sep) ELSE 0)]]

segments(s, sep) == IF sep = << >> THEN explode(s) ELSE genSplit(s, sep, 0)

\* Variant: the capacity of the input, not reduced by the segment's start.
segCapOfView(v, seg) == v.cap

\* Variant: the capacity set to the segment's length (s[:m:m]).
segCapTight(v, seg) == seg.len

\* cap() of a returned slice: up to the end of the underlying array.
segCap(v, seg) == v.cap - seg.off

splitBySeparator(h, v, sep) ==
    LET segs == segments(Read(h, v), sep)
    IN  [k \in 1 .. Len(segs) |->
            mkView(v.buf, v.off + segs[k].off, segs[k].len, segCap(v, segs[k]))]

(***************************************************************************)
(* append(v, xs...): within the capacity the slice grows on its array;     *)
(* beyond it append allocates a new, larger array and copies the old       *)
(* content over.                                                           *)
(***************************************************************************)
needed(v, xs) == v.len + Len(xs)

\* Variant: the last free cell is never used (< instead of <=).
fitsStrict(v, xs) == needed(v, xs) < v.cap

fits(v, xs) == needed(v, xs) <= v.cap

\* Size of the new array: "of sufficient length"; the choice is the
\* runtime's (exact fit, doubling, doubling rounded up by the allocator).
RoundUp8(n) == ((n + 7) \div 8) * 8

growCaps(cap, need) ==
    { need, Max(2 * cap, need), RoundUp8(Max(2 * cap, need)) }

\* Variant: the new elements written from the start of the view.
growInPlaceAtStart(h, v, xs) ==
    [heap |-> [h EXCEPT ![v.buf] =
                  [c \in DOMAIN h[v.buf] |->
                      IF v.off < c /\ c <= v.off + Len(xs)
                      THEN xs[c - v.off]
                      ELSE h[v.buf][c]]],
     view |-> [v EXCEPT !.len = needed(v, xs)]]

growInPlace(h, v, xs) ==
    [heap |-> [h EXCEPT ![v.buf] =
                  [c \in DOMAIN h[v.buf] |->
                      IF v.off + v.len < c /\ c <= v.off + needed(v, xs)
                      THEN xs[c - (v.off + v.len)]
                      ELSE h[v.buf][c]]],
     view |-> [v EXCEPT !.len = needed(v, xs)]]

\* Variant: the old content is not copied over.
growReallocNoCopy(h, v, xs, newcap) ==
    [heap |-> Append(h, Zeros(v.len) \o xs \o Zeros(newcap - needed(v, xs))),
     view |-> mkView(Len(h) + 1, 0, needed(v, xs), newcap)]

\* Variant: the new array is twice the old capacity, whatever is needed.
growReallocDouble(h, v, xs, newcap) ==
    [heap |-> Append(h, Read(h, v) \o xs \o Zeros(2 * v.cap - needed(v, xs))),
     view |-> mkView(Len(h) + 1, 0, needed(v, xs), 2 * v.cap)]

growRealloc(h, v, xs, newcap) ==
    [heap |-> Append(h, Read(h, v) \o xs \o Zeros(newcap - needed(v, xs))),
     view |-> mkView(Len(h) + 1, 0, needed(v, xs), newcap)]

\* Variant: append always allocates and copies.
growAlwaysCopy(h, v, xs, newcap) ==
    [heap |-> Append(h, Read(h, v) \o xs \o Zeros(newcap - needed(v, xs))),
     view |-> mkView(Len(h) + 1, 0, needed(v, xs), newcap)]

grow(h, v, xs, newcap) ==
    IF fits(v, xs) THEN growInPlace(h, v, xs) ELSE growRealloc(h, v, xs, newcap)

(***************************************************************************)
(* copy(dst, src): copies min(len(dst), len(src)) elements into the array  *)
(* of dst and returns their number; the headers stay as they are.          *)
(***************************************************************************)
\* Variant: the destination header is set to the source (d = s): no copy.
copyIntoAlias(h, vs, d, s) ==
    [heap |-> h, views |-> (vs \ { d }) \cup { s }, n |-> Min(d.len, s.len)]

\* Variant: the count taken from cap(dst) instead of len(dst).
copyIntoCap(h, vs, d, s) ==
    LET n == Min(d.cap, s.len)
    IN  [heap |-> [h EXCEPT ![d.buf] =
                      [c \in DOMAIN h[d.buf] |->
                          IF d.off < c /\ c <= d.off + n
                          THEN h[s.buf][s.off + (c - d.off)]
                          ELSE h[d.buf][c]]],
         views |-> vs,
         n |-> n]

\* Variant: the arguments taken in the other order (source first).
copyIntoSwapped(h, vs, d, s) ==
    LET n == Min(d.len, s.len)
    IN  [heap |-> [h EXCEPT ![s.buf] =
                      [c \in DOMAIN h[s.buf] |->
                          IF s.off < c /\ c <= s.off + n
                          THEN h[d.buf][d.off + (c - s.off)]
                          ELSE h[s.buf][c]]],
         views |-> vs,
         n |-> n]

copyInto(h, vs, d, s) ==
    LET n == Min(d.len, s.len)
    IN  [heap |-> [h EXCEPT ![d.buf] =
                      [c \in DOMAIN h[d.buf] |->
                          IF d.off < c /\ c <= d.off + n
                          THEN h[s.buf][s.off + (c - d.off)]
                          ELSE h[d.buf][c]]],
         views |-> vs,
         n |-> n]

(***************************************************************************)
(* The state: the element type of the program's slices ([]byte in         *)
(* splitDemo, []int in appendDemo and alwaysCopy), the arrays, the slice   *)
(* headers in existence, the state before the last operation, and the      *)
(* last operation with its arguments and result.                           *)
(***************************************************************************)
NoView == mkView(0, 0, 0, 0)

Op(op, v, w, lo, hi, xs, k, val, n, err, res) ==
    [op |-> op, v |-> v, w |-> w, lo |-> lo, hi |-> hi, xs |-> xs,
     k |-> k, val |-> val, n |-> n, err |-> err, res |-> res]

Range(f) == { f[k] : k \in DOMAIN f }

\* A composite literal / conversion: a := []byte("a,b,c"), s1 := []int{..},
\* or make([]int, 2, 4) with its elements set.
Init ==
    \E c \in InitConfigs :
        /\ elem = c.typ
        /\ heap = << c.data >>
        /\ views = { mkView(1, 0, c.len, Len(c.data)) }
        /\ pheap = heap
        /\ pviews = views
        /\ last = Op("init", NoView, NoView, 0, 0, << >>, 0, 0, 0, FALSE,
                     << mkView(1, 0, c.len, Len(c.data)) >>)
        /\ nops = 0

\* One more operation of the program; a panic has ended it.
Step ==
    /\ nops < MaxOps
    /\ ~last.err
    /\ nops' = nops + 1
    /\ elem' = elem
    /\ pheap' = heap
    /\ pviews' = views

\* make([]int, l, c)
Make ==
    \E a \in MakeArgs :
        LET r == mkView(Len(heap) + 1, 0, a[1], a[2])
        IN  /\ Step
            /\ elem = "int"
            /\ heap' = Append(heap, Zeros(a[2]))
            /\ views' = views \cup { r }
            /\ last' = Op("make", NoView, NoView, a[1], a[2], << >>, 0, 0, 0,
                          FALSE, << r >>)

\* v[k] = val
SetElem ==
    \E v \in views, val \in SetVals :
        \E k \in 0 .. v.len - 1 :
            /\ Step
            /\ heap' = Write(heap, v, k, val)
            /\ views' = views
            /\ last' = Op("set", v, NoView, 0, 0, << >>, k, val, 0, FALSE, << >>)

\* w := v[lo:hi]; out of range it panics and no slice comes into being.
Slice ==
    \E v \in views, a \in SliceArgs :
        LET lo == a[1]
            hi == a[2]
        IN  /\ Step
            /\ heap' = heap
            /\ IF sliceOK(v, lo, hi)
               THEN /\ views' = views \cup { slice(v, lo, hi) }
                    /\ last' = Op("slice", v, NoView, lo, hi, << >>, 0, 0, 0,
                                  FALSE, << slice(v, lo, hi) >>)
               ELSE /\ views' = views
                    /\ last' = Op("slice", v, NoView, lo, hi, << >>, 0, 0, 0,
                                  TRUE, << >>)

\* b := bytes.Split(v, sep)
SplitBySeparator ==
    \E v \in views, sep \in Seps :
        LET segs == splitBySeparator(heap, v, sep)
        IN  /\ Step
            /\ elem = "byte"
            /\ heap' = heap
            /\ views' = views \cup Range(segs)
            /\ last' = Op("split", v, NoView, 0, 0, sep, 0, 0, 0, FALSE, segs)

\* w := append(v, xs...)
Grow ==
    \E v \in views, xs \in GrowArgs(elem) :
        \E newcap \in IF fits(v, xs) THEN { v.cap }
                       ELSE growCaps(v.cap, needed(v, xs)) :
            LET r == grow(heap, v, xs, newcap)
            IN  /\ Step
                /\ heap' = r.heap
                /\ views' = views \cup { r.view }
                /\ last' = Op("grow", v, NoView, 0, 0, xs, 0, 0, 0, FALSE,
                              << r.view >>)

\* n := copy(d, s)
CopyInto ==
    \E d \in views, s \in views :
        LET r == copyInto(heap, views, d, s)
        IN  /\ Step
            /\ heap' = r.heap
            /\ views' = r.views
            /\ last' = Op("copy", d, s, 0, 0, << >>, 0, 0, r.n, FALSE, << >>)

Next == Make \/ SetElem \/ Slice \/ SplitBySeparator \/ Grow \/ CopyInto

Spec == Init /\ [][Next]_vars

(***************************************************************************)
(* Vocabulary of the properties.                                           *)
(***************************************************************************)
\* The cell (counted from 1 in its array) of element k (counted from 0).
Cell(v, k) == v.off + k + 1

\* Cell c of the array of v lies in the window of w.
Covers(w, v, c) == w.buf = v.buf /\ w.off < c /\ c <= w.off + w.len

\* Two views share at least one cell.
Overlap(d, s) ==
    /\ d.buf = s.buf
    /\ d.off < s.off + s.len
    /\ s.off < d.off + d.len

GrewInPlace ==
    /\ last.op = "grow"
    /\ last.v.len + Len(last.xs) <= last.v.cap

GrewBeyondCap ==
    /\ last.op = "grow"
    /\ last.v.len + Len(last.xs) > last.v.cap

\* C1: a grow that fits the capacity returns a view on the same buffer with
\* the same offset and capacity and length v.length + |xs|; xs is written
\* into the cells right after v, and every view on that buffer whose range
\* covers one of these cells reads the new element there.
C1_GrowInPlace ==
    GrewInPlace =>
        LET v == last.v
            xs == last.xs
            r == last.res[1]
        IN  /\ r.buf = v.buf
            /\ r.off = v.off
            /\ r.cap = v.cap
            /\ r.len = v.len + Len(xs)
            /\ Len(heap) = Len(pheap)
            /\ \A j \in 1 .. Len(xs) : heap[v.buf][v.off + v.len + j] = xs[j]
            /\ \A w \in views : \A j \in 1 .. Len(xs) :
                   Covers(w, v, v.off + v.len + j) =>
                       Read(heap, w)[v.off + v.len + j - w.off] = xs[j]

\* An in-place grow whose new cells are read through an older view that
\* held something else there.
C1_Witness ==
    /\ GrewInPlace
    /\ Len(last.xs) > 0
    /\ \E w \in pviews :
           /\ w # last.v
           /\ Covers(w, last.v, last.v.off + last.v.len + 1)
           /\ Read(heap, w) # Read(pheap, w)

\* C2: a grow beyond the capacity returns a view on a buffer that did not
\* exist before, with offset 0, length v.length + |xs| and contents v's
\* elements followed by xs; every cell of the buffers that existed and every
\* existing view header stay as they were; and a write through a view
\* (element assignment, copy, in-place grow) changes no other buffer than
\* that view's, so writes through the returned view never show in the
\* original buffer.
C2_GrowRealloc ==
    /\ GrewBeyondCap =>
           LET v == last.v
               xs == last.xs
               r == last.res[1]
           IN  /\ r.buf \notin DOMAIN pheap
               /\ r.buf \in DOMAIN heap
               /\ r.off = 0
               /\ r.len = v.len + Len(xs)
               /\ Read(heap, r) = Read(pheap, v) \o xs
               /\ \A b \in DOMAIN pheap : heap[b] = pheap[b]
               /\ pviews \subseteq views
               /\ views \subseteq pviews \cup { r }
               /\ \A k \in 0 .. r.len - 1 : \A val \in SetVals :
                      \A w \in pviews :
                          Read(Write(heap, r, k, val), w) = Read(heap, w)
    /\ (last.op \in { "set", "copy" } \/ GrewInPlace) =>
           \A b \in DOMAIN pheap : b # last.v.buf => heap[b] = pheap[b]

\* A reallocating grow of a view that shares its buffer with another view.
C2_Witness ==
    /\ GrewBeyondCap
    /\ last.v.len > 0
    /\ \E w \in pviews : w # last.v /\ Overlap(w, last.v)

\* C3: every view returned by splitBySeparator has its capacity reach the
\* end of the original buffer (offset + capacity = size of the buffer),
\* the segments before the last one included.
C3_SplitCapacity ==
    last.op = "split" =>
        \A k \in DOMAIN last.res :
            last.res[k].off + last.res[k].cap = Len(heap[last.v.buf])

\* A split into several segments, the first one with room beyond its length.
C3_Witness ==
    /\ last.op = "split"
    /\ Len(last.res) >= 3
    /\ last.res[1].cap > last.res[1].len
    /\ last.res[2].cap > last.res[2].len

\* The demo's slices: a over "a,b,c" and b = bytes.Split(a, ",").
DemoA == mkView(1, 0, 5, 5)

DemoB(h) == splitBySeparator(h, DemoA, << 44 >>)

\* C4: after splitBySeparator, a grow of segment i that fits segment i's
\* capacity raises no error, stays on the original buffer and overwrites the
\* bytes that follow segment i there: the original view and the other
\* segments read the new bytes in the cells they cover, and when more bytes
\* are appended than the separator is long the first byte of segment i+1 is
\* one of them.  In the demo ("a,b,c" split on ",", b[0][0] = '*',
\* b[0] = append(b[0], 'd', 'e', 'f')) a reads "*defc" and b[1] reads "e".
C4_SplitThenGrow ==
    [][ /\ ( /\ last.op = "split"
             /\ last'.op = "grow"
             /\ \E i \in DOMAIN last.res : last'.v = last.res[i]
             /\ last'.v.len + Len(last'.xs) <= last'.v.cap ) =>
                LET g == last.res
                    seg == last'.v
                    xs == last'.xs
                    r == last'.res[1]
                IN  /\ ~last'.err
                    /\ r.buf = last.v.buf
                    /\ Len(heap') = Len(heap)
                    /\ \A j \in 1 .. Len(xs) :
                           heap'[seg.buf][seg.off + seg.len + j] = xs[j]
                    /\ \A w \in { last.v } \cup Range(g) :
                           \A j \in 1 .. Len(xs) :
                               Covers(w, seg, seg.off + seg.len + j) =>
                                   Read(heap', w)[seg.off + seg.len + j - w.off]
                                       = xs[j]
                    /\ \A i \in 1 .. Len(g) - 1 :
                           ( /\ g[i] = seg
                             /\ g[i + 1].len > 0
                             /\ Len(xs) > Len(last.xs) ) =>
                                 Read(heap', g[i + 1])[1] = xs[Len(last.xs) + 1]
        /\ ( /\ pheap = << <<97, 44, 98, 44, 99>> >>
             /\ { DemoA } \cup Range(DemoB(pheap)) \subseteq views
             /\ last.op = "set"
             /\ last.v = DemoB(pheap)[1]
             /\ last.k = 0
             /\ last.val = 42
             /\ last'.op = "grow"
             /\ last'.v = DemoB(pheap)[1]
             /\ last'.xs = <<100, 101, 102>> ) =>
                /\ Read(heap', DemoA) = <<42, 100, 101, 102, 99>>
                /\ Read(heap', DemoB(pheap)[2]) = <<101>>
      ]_vars

\* The end of splitDemo: b[0] has grown over b[1] on a's array.
C4_Witness ==
    /\ last.op = "grow"
    /\ last.v = mkView(1, 0, 1, 5)
    /\ last.xs = <<100, 101, 102>>
    /\ pheap = << <<42, 44, 98, 44, 99>> >>
    /\ { DemoA, mkView(1, 2, 1, 3), mkView(1, 4, 1, 1) } \subseteq pviews
    /\ Read(heap, DemoA) = <<42, 100, 101, 102, 99>>
    /\ Read(heap, mkView(1, 2, 1, 3)) = <<101>>

\* sep occurs in t at position m (counted from 0).
Occurs(t, sep, m) == \A j \in 1 .. Len(sep) : t[m + j] = sep[j]

\* C5: splitBySeparator returns the segments in the order of their position;
\* each is a view on the original buffer (nothing is allocated or copied);
\* the first starts where the input starts, each next one starts right
\* after an occurrence of sep that follows the previous one, the last ends
\* where the input ends, and no segment contains sep; a write through the
\* original view inside a segment's range is read through the segment.
C5_SplitSegments ==
    last.op = "split" =>
        LET v == last.v
            sep == last.xs
            g == last.res
            n == Len(last.res)
        IN  /\ heap = pheap
            /\ views = pviews \cup Range(g)
            /\ \A k \in 1 .. n : g[k].buf = v.buf
            /\ n = 0 => v.len = 0
            /\ sep # << >> => n >= 1
            /\ n >= 1 =>
                   /\ g[1].off = v.off
                   /\ g[n].off + g[n].len = v.off + v.len
            /\ \A k \in 1 .. n - 1 :
                   /\ g[k + 1].off = g[k].off + g[k].len + Len(sep)
                   /\ Occurs(heap[v.buf], sep, g[k].off + g[k].len)
            /\ sep # << >> =>
                   \A k \in 1 .. n : \A m \in 0 .. g[k].len - Len(sep) :
                       ~Occurs(Read(heap, g[k]), sep, m)
            /\ \A k \in 1 .. n : \A j \in 0 .. g[k].len - 1 :
                   \A val \in SetVals :
                       Read(Write(heap, v, g[k].off - v.off + j, val), g[k])[j + 1]
                           = val

\* A split on a separator of two bytes into segments that are not empty.
C5_Witness ==
    /\ last.op = "split"
    /\ Len(last.xs) = 2
    /\ Len(last.res) >= 2
    /\ \A k \in DOMAIN last.res : last.res[k].len > 0

\* Changing element k of s (to a value it does not hold) leaves what d
\* reads as it is.
Unobserved(d, s) ==
    \A k \in 0 .. s.len - 1 :
        Read(Write(heap, s, k, heap[s.buf][Cell(s, k)] + 1), d) = Read(heap, d)

\* C6 as stated: after copyInto(d, s), for all (two different) views d and
\* s, changing an element of s changes no element read through d.
C6_AllViews ==
    (last.op = "copy" /\ last.v # last.w) =>
        /\ { last.v, last.w } \subseteq views
        /\ Unobserved(last.v, last.w)

\* C6, amended: copyInto creates no aliasing: it leaves both headers as they
\* are, so for all views d and s that shared no cell before the copy,
\* changing an element of s after copyInto(d, s) changes no element read
\* through d.
C6_NoNewAliasing ==
    (last.op = "copy" /\ ~Overlap(last.v, last.w)) =>
        /\ { last.v, last.w } \subseteq views
        /\ Unobserved(last.v, last.w)

\* A copy between two arrays that made the destination read the source's
\* elements.
C6_Witness ==
    /\ last.op = "copy"
    /\ last.v.buf # last.w.buf
    /\ last.n > 0
    /\ heap # pheap

\* What copyInto(d, s) does in every case: it copies n = min(d.length,
\* s.length) elements, d[k] = (old) s[k] for k < n, returns n, leaves every
\* other cell, every header and the number of buffers as they were.
CopyEffect ==
    LET d == last.v
        s == last.w
        n == last.n
    IN  /\ n = Min(d.len, s.len)
        /\ \A k \in 0 .. n - 1 : Read(heap, d)[k + 1] = Read(pheap, s)[k + 1]
        /\ \A k \in n .. d.len - 1 : Read(heap, d)[k + 1] = Read(pheap, d)[k + 1]
        /\ views = pviews
        /\ Len(heap) = Len(pheap)
        /\ \A b \in DOMAIN pheap : \A c \in DOMAIN pheap[b] :
               (b # d.buf \/ c <= d.off \/ c > d.off + n) =>
                   heap[b][c] = pheap[b][c]

\* The n cells written by the copy.
Written(d, n) == mkView(d.buf, d.off, n, d.cap)

\* C7 as stated: copyInto copies n = min elements, returns n, and leaves
\* dest beyond n, the headers and src's elements unchanged, for all views.
C7_SrcUnchanged ==
    last.op = "copy" =>
        /\ CopyEffect
        /\ Read(heap, last.w) = Read(pheap, last.w)

\* C7, amended: copyInto(dest, src) copies exactly n = min(dest.length,
\* src.length) elements, dest[k] = (old) src[k] for every k < n, returns n,
\* leaves dest's elements at indices >= n, both headers and every cell
\* outside the n written ones unchanged and allocates nothing; src's
\* elements are unchanged when src shares none of the n written cells.
C7_CopyInto ==
    last.op = "copy" =>
        /\ CopyEffect
        /\ ~Overlap(Written(last.v, last.n), last.w) =>
               Read(heap, last.w) = Read(pheap, last.w)

\* A copy shorter than its destination that changed it, from a source on
\* the same array outside the written cells.
C7_Witness ==
    /\ last.op = "copy"
    /\ 0 < last.n
    /\ last.n < last.v.len
    /\ last.v.buf = last.w.buf
    /\ ~Overlap(Written(last.v, last.n), last.w)
    /\ heap # pheap

\* C8: for 0 <= lo <= hi <= v.length, slice(v, lo, hi) returns a view on
\* the same buffer with offset v.offset + lo, length hi - lo and capacity
\* v.capacity - lo; no buffer is allocated and no cell changes.
C8_Slice ==
    ( /\ last.op = "slice"
      /\ 0 <= last.lo
      /\ last.lo <= last.hi
      /\ last.hi <= last.v.len ) =>
        /\ ~last.err
        /\ Len(last.res) = 1
        /\ last.res[1].buf = last.v.buf
        /\ last.res[1].off = last.v.off + last.lo
        /\ last.res[1].len = last.hi - last.lo
        /\ last.res[1].cap = last.v.cap - last.lo
        /\ last.res[1] \in views
        /\ heap = pheap

\* A slice inside the length of a view that itself starts inside its array,
\* with room left behind the result.
C8_Witness ==
    /\ last.op = "slice"
    /\ ~last.err
    /\ last.v.off > 0
    /\ last.lo > 0
    /\ last.hi <= last.v.len
    /\ last.res[1].cap > last.res[1].len

\* What a failed slice leaves behind: nothing.
SliceFailed ==
    /\ last.err
    /\ last.res = << >>
    /\ views = pviews
    /\ heap = pheap

\* C9 as stated: slice(v, lo, hi) fails whenever lo < 0 or hi < lo or
\* hi > v.length, also for hi above v.length but within v.capacity, and
\* then creates no view and changes nothing.
C9_FailsBeyondLength ==
    ( /\ last.op = "slice"
      /\ (last.lo < 0 \/ last.hi < last.lo \/ last.hi > last.v.len) ) =>
        SliceFailed

\* C9, amended: slice(v, lo, hi) fails exactly when lo < 0 or hi < lo or
\* hi > v.capacity; a failure creates no view and changes no buffer cell
\* and no existing header.  For hi above v.length but within v.capacity it
\* does not fail: the result has length hi - lo and extends over the cells
\* behind v's length.
C9_FailsBeyondCapacity ==
    last.op = "slice" =>
        /\ (last.lo < 0 \/ last.hi < last.lo \/ last.hi > last.v.cap) =>
               SliceFailed
        /\ ( /\ 0 <= last.lo
             /\ last.lo <= last.hi
             /\ last.hi <= last.v.cap ) =>
               /\ ~last.err
               /\ last.res = << mkView(last.v.buf, last.v.off + last.lo,
                                       last.hi - last.lo,
                                       last.v.cap - last.lo) >>
               /\ views = pviews \cup Range(last.res)
               /\ heap = pheap

\* A slice expression with hi beyond the capacity of a view that has room
\* behind its length, failing while other views exist.
C9_Witness ==
    /\ last.op = "slice"
    /\ last.err
    /\ last.lo >= 0
    /\ last.lo <= last.hi
    /\ last.hi > last.v.cap
    /\ last.v.cap > last.v.len
    /\ Cardinality(views) > 1

\* C10: every existing view has 0 <= length <= capacity and offset +
\* capacity = the size of its buffer, and no buffer changes its size after
\* its allocation (nor disappears).
C10_ViewInvariant ==
    /\ \A v \in views :
           /\ v.buf \in DOMAIN heap
           /\ 0 <= v.off
           /\ 0 <= v.len
           /\ v.len <= v.cap
           /\ v.off + v.cap = Len(heap[v.buf])
    /\ Len(pheap) <= Len(heap)
    /\ \A b \in DOMAIN pheap : Len(heap[b]) = Len(pheap[b])

\* After three operations: two buffers, a view that starts inside its
\* buffer with room behind its length, and a view that fills its capacity.
C10_Witness ==
    /\ nops = MaxOps
    /\ Len(heap) >= 2
    /\ \E v \in views : v.off > 0 /\ v.len < v.cap
    /\ \E v \in views : v.len = v.cap /\ v.buf = 2
    /\ last.op \in { "grow", "copy", "slice" }

\* The start of appendDemo: s1 of length 2 and capacity 4 over [1, 2].
DemoS1 == mkView(1, 0, 2, 4)

\* C11: in a sequence of grows, each applied to the view the previous one
\* returned, the buffer identity changes at exactly the grows where length +
\* number of appended elements exceeds the capacity, and the view returned
\* last holds the initial contents followed by all appended elements in
\* order.  For [1, 2] of length 2 and capacity 4, grow with [3, 4] keeps the
\* buffer and gives [1, 2, 3, 4]; a further grow with [5] gives a new buffer
\* and [1, 2, 3, 4, 5].
C11_GrowSequence ==
    [][ /\ last'.op = "grow" =>
               /\ (last'.res[1].buf # last'.v.buf) <=>
                      (last'.v.len + Len(last'.xs) > last'.v.cap)
               /\ Read(heap', last'.res[1]) = Read(heap, last'.v) \o last'.xs
        /\ ( /\ last.op = "grow"
             /\ last'.op = "grow"
             /\ last'.v = last.res[1] ) =>
               Read(heap', last'.res[1]) =
                   Read(pheap, last.v) \o last.xs \o last'.xs
        /\ ( /\ last'.op = "grow"
             /\ last'.v = DemoS1
             /\ heap = << <<1, 2, 0, 0>> >>
             /\ last'.xs = <<3, 4>> ) =>
               /\ last'.res[1].buf = DemoS1.buf
               /\ Read(heap', last'.res[1]) = <<1, 2, 3, 4>>
        /\ ( /\ last.op = "grow"
             /\ last.v = DemoS1
             /\ pheap = << <<1, 2, 0, 0>> >>
             /\ last.xs = <<3, 4>>
             /\ last'.op = "grow"
             /\ last'.v = last.res[1]
             /\ last'.xs = <<5>> ) =>
               /\ last'.res[1].buf # DemoS1.buf
               /\ Read(heap', last'.res[1]) = <<1, 2, 3, 4, 5>>
      ]_vars

\* The end of appendDemo: the second append, on the result of the first,
\* has moved s1 to a new array.
C11_Witness ==
    /\ last.op = "grow"
    /\ last.xs = <<5>>
    /\ last.v = mkView(1, 0, 4, 4)
    /\ DemoS1 \in pviews
    /\ pheap = << <<1, 2, 3, 4>> >>
    /\ last.res[1].buf = 2
    /\ Read(heap, last.res[1]) = <<1, 2, 3, 4, 5>>

\* The slices of alwaysCopy: s1 over [1, 2, 3, 4] and s2 = make([]int, 4, 8).
DemoSrc == mkView(1, 0, 4, 4)

DemoDst == mkView(2, 0, 4, 8)

\* C12: for a source s and a destination d on another, freshly allocated
\* buffer with d.length = s.length and d.capacity >= d.length + |xs|,
\* copyInto(d, s) followed by grow(d, xs) returns a view on d's buffer, not
\* s's, that holds s's elements followed by xs; s's header and every cell of
\* s's buffer stay as they were.  For s = [1, 2, 3, 4], d of length 4 and
\* capacity 8 and xs = [5, 6, 7, 8] the result is [1, ..., 8] and s still
\* reads [1, 2, 3, 4].
C12_CopyThenGrow ==
    [][ /\ ( /\ last.op = "copy"
             /\ last.v.buf # last.w.buf
             /\ last.v.len = last.w.len
             /\ last'.op = "grow"
             /\ last'.v = last.v
             /\ last.v.cap >= last.v.len + Len(last'.xs) ) =>
               /\ last'.res[1].buf = last.v.buf
               /\ last'.res[1].buf # last.w.buf
               /\ Read(heap', last'.res[1]) = Read(pheap, last.w) \o last'.xs
               /\ last.w \in views'
               /\ heap'[last.w.buf] = pheap[last.w.buf]
        /\ ( /\ last.op = "copy"
             /\ last.v = DemoDst
             /\ last.w = DemoSrc
             /\ pheap = << <<1, 2, 3, 4>>, Zeros(8) >>
             /\ last'.op = "grow"
             /\ last'.v = DemoDst
             /\ last'.xs = <<5, 6, 7, 8>> ) =>
               /\ last'.res[1].buf = DemoDst.buf
               /\ Read(heap', last'.res[1]) = <<1, 2, 3, 4, 5, 6, 7, 8>>
               /\ Read(heap', DemoSrc) = <<1, 2, 3, 4>>
      ]_vars

\* The end of alwaysCopy: s2 holds [1 .. 8] on its own array, s1 is as it
\* was.
C12_Witness ==
    /\ last.op = "grow"
    /\ last.v = DemoDst
    /\ last.xs = <<5, 6, 7, 8>>
    /\ pheap = << <<1, 2, 3, 4>>, <<1, 2, 3, 4, 0, 0, 0, 0>> >>
    /\ last.res[1].buf = 2
    /\ heap = << <<1, 2, 3, 4>>, <<1, 2, 3, 4, 5, 6, 7, 8>> >>
    /\ DemoSrc \in views

\* C13: writing element j of a segment g returned by splitBySeparator
\* changes exactly the byte of the original buffer at position g.offset + j
\* and no other byte, and no view's offset, length or capacity.  "a,b,c"
\* split on "," gives ["a", "b", "c"], and setting segment 0's first element
\* to '*' makes the original view read "*,b,c".
C13_WriteThroughSegment ==
    [][ /\ ( /\ last.op = "split"
             /\ last'.op = "set"
             /\ last'.v \in Range(last.res) ) =>
               /\ last'.k < last'.v.len
               /\ heap'[last'.v.buf][last'.v.off + last'.k + 1] = last'.val
               /\ Len(heap') = Len(heap)
               /\ \A b \in DOMAIN heap : \A c \in DOMAIN heap[b] :
                      (b # last'.v.buf \/ c # last'.v.off + last'.k + 1) =>
                          heap'[b][c] = heap[b][c]
               /\ views' = views
        /\ ( /\ last.op = "split"
             /\ last.v = DemoA
             /\ last.xs = << 44 >>
             /\ heap = << <<97, 44, 98, 44, 99>> >> ) =>
               /\ Len(last.res) = 3
               /\ Read(heap, last.res[1]) = << 97 >>
               /\ Read(heap, last.res[2]) = << 98 >>
               /\ Read(heap, last.res[3]) = << 99 >>
               /\ ( /\ last'.op = "set"
                    /\ last'.v = last.res[1]
                    /\ last'.k = 0
                    /\ last'.val = 42 ) =>
                      Read(heap', DemoA) = <<42, 44, 98, 44, 99>>
      ]_vars

\* splitDemo after b[0][0] = byte('*'): a reads "*,b,c".
C13_Witness ==
    /\ last.op = "set"
    /\ last.v = mkView(1, 0, 1, 5)
    /\ last.k = 0
    /\ { DemoA, mkView(1, 2, 1, 3), mkView(1, 4, 1, 1) } \subseteq views
    /\ pheap = << <<97, 44, 98, 44, 99>> >>
    /\ heap = << <<42, 44, 98, 44, 99>> >>

\* sep occurs nowhere in t.
Absent(t, sep) == \A m \in 0 .. Len(t) - Len(sep) : ~Occurs(t, sep, m)

C15_GrowByValue ==
    last.op = "grow" =>
        LET v == last.v
            xs == last.xs
            r == last.res[1]
        IN  /\ v \in views
            /\ pviews \subseteq views
            /\ views \subseteq pviews \cup { r }
            /\ r.len = v.len + Len(xs)
            /\ GrewInPlace =>
                   /\ Len(heap) = Len(pheap)
                   /\ \A b \in DOMAIN pheap : \A c \in DOMAIN pheap[b] :
                          ~( /\ b = v.buf
                             /\ v.off + v.len < c
                             /\ c <= v.off + v.len + Len(xs) ) =>
                               heap[b][c] = pheap[b][c]
                   /\ Read(heap, v) = Read(pheap, v)

\* An in-place grow of a view that starts inside its array while other
\* views exist; the header passed in still has its old length.
C15_Witness ==
    /\ GrewInPlace
    /\ last.v.off > 0
    /\ last.v.len > 0
    /\ Cardinality(pviews) >= 2
    /\ last.v \in views
    /\ last.res[1] \notin pviews
    /\ heap # pheap

\* C16 as stated: a reallocating grow gives the new buffer, and the
\* returned view, the capacity max(2 * v.capacity, needed).
C16_DoubleOrNeeded ==
    GrewBeyondCap =>
        /\ last.res[1].cap = Len(heap[last.res[1].buf])
        /\ last.res[1].cap = Max(2 * last.v.cap, last.v.len + Len(last.xs))
        /\ last.res[1].cap >= last.v.len + Len(last.xs)

\* C16, amended: when grow reallocates, the new buffer's size, which is
\* also the returned view's capacity, is at least needed and so larger than
\* v.capacity; how much larger is the runtime's choice (max(2 * v.capacity,
\* needed) is one possible size, 8 for capacity 4 and needed 5).
C16_CapacitySufficient ==
    GrewBeyondCap =>
        /\ last.res[1].off = 0
        /\ last.res[1].cap = Len(heap[last.res[1].buf])
        /\ last.res[1].cap >= last.v.len + Len(last.xs)
        /\ last.res[1].cap > last.v.cap

\* appendDemo's second append: capacity 4, needed 5, new capacity 8.
C16_Witness ==
    /\ GrewBeyondCap
    /\ last.v.cap = 4
    /\ last.v.len + Len(last.xs) = 5
    /\ last.res[1].cap = 8
    /\ Len(heap[2]) = 8

====
